---- MODULE Spec2Model ----
(***************************************************************************)
(* Memberful OAuth2 server-side example (Node.js + Express).               *)
(*                                                                         *)
(* The server keeps one process-wide variable, `state`, and serves three   *)
(* routes: the lobby, the initiator (beginOAuthFlowURL) and the callback   *)
(* (callbackURL).  The callback handler is an async function: it runs to   *)
(* its first await, and is resumed once per awaited axios call, so other   *)
(* requests are handled while it is suspended.                             *)
(*                                                                         *)
(* The repository holds the server twice (the second copy differs in its   *)
(* comments and in the path of the initiator route only); one model covers *)
(* both, and names the lines of src/src/index.js.                          *)
(*                                                                         *)
(* JavaScript values are modelled with a type tag: a string is             *)
(* [type |-> "string", chars |-> <<"a", "b">>], undefined is Undefined, an *)
(* array is [type |-> "array", items |-> <<...>>].                         *)
(***************************************************************************)
EXTENDS Integers, Sequences, FiniteSets, TLC

\* ------------------------------------------------------------------------
\* Bounds of the model
\* ------------------------------------------------------------------------

\* requests (lobby, initiator, callback) handled in one run
MaxRequests == 3

\* outcomes of the random source an initiator request can see
NumStreams == 2

\* longest string asked of generateRandomString on its own
MaxLen == 2

\* Math.random() returns k / RandomGrain for some k in 0 .. RandomGrain - 1
RandomGrain == 62

\* ------------------------------------------------------------------------
\* Configuration
\* ------------------------------------------------------------------------

beginOAuthFlowURL == "/login"

callbackURL == "/callback"

memberfulURL == "INSERT_YOUR_MEMBERFUL_URL_HERE"

clientId == "INSERT_YOUR_OAUTH_IDENTIFIER_HERE"

clientSecret == "INSERT_YOUR_OAUTH_SECRET_HERE"

\* the length the initiator asks of generateRandomString
StateLength == 16

\* ------------------------------------------------------------------------
\* JavaScript values
\* ------------------------------------------------------------------------

Undefined == [type |-> "undefined"]

Str(cs) == [type |-> "string", chars |-> cs]

Arr(xs) == [type |-> "array", items |-> xs]

\* a === b for the values the handlers compare: no coercion; two strings
\* are identical when they hold the same characters, and an array parsed
\* from a query string is a fresh object, identical to nothing else.
StrictEquals(a, b) ==
  /\ a.type = b.type
  /\ \/ a.type = "undefined"
     \/ a.type = "string" /\ a.chars = b.chars

\* obj.name: undefined when the object has no such property
Prop(obj, name) == IF name \in DOMAIN obj THEN obj[name] ELSE Undefined

\* ------------------------------------------------------------------------
\* generateRandomString
\* ------------------------------------------------------------------------

possible ==
  << "A", "B", "C", "D", "E", "F", "G", "H", "I", "J", "K", "L", "M",
     "N", "O", "P", "Q", "R", "S", "T", "U", "V", "W", "X", "Y", "Z",
     "a", "b", "c", "d", "e", "f", "g", "h", "i", "j", "k", "l", "m",
     "n", "o", "p", "q", "r", "s", "t", "u", "v", "w", "x", "y", "z",
     "0", "1", "2", "3", "4", "5", "6", "7", "8", "9" >>

\* s.charAt(idx), idx counted from 0: the empty string out of range
charAt(s, idx) == IF idx \in 0 .. (Len(s) - 1) THEN << s[idx + 1] >> ELSE << >>

\* Math.floor(Math.random() * n), when Math.random() returned k / RandomGrain
FloorRandomTimes(k, n) == (k * n) \div RandomGrain

RECURSIVE generateLoop(_, _, _, _)
generateLoop(i, length, text, rnd) ==
  IF i < length
  THEN generateLoop(i + 1, length,
                    text \o charAt(possible, FloorRandomTimes(rnd[i], Len(possible))),
                    rnd)
  ELSE text

\* generateRandomString with its loop started at 1
generateRandomStringFromOne(length, rnd) == generateLoop(1, length, << >>, rnd)

\* rnd[i] is the outcome of the Math.random() call of iteration i
generateRandomString(length, rnd) == generateLoop(0, length, << >>, rnd)

\* the outcomes of the random source an initiator request can see
RandomStreams ==
  { [i \in 0 .. (StateLength - 1) |-> (s * s + 7 * s * (i + 1)) % RandomGrain]
      : s \in 1 .. NumStreams }

\* ------------------------------------------------------------------------
\* The provider (the collaborator the callback handler calls through axios)
\* ------------------------------------------------------------------------

\* bodies of a successful authorization_code exchange
TokenPairs ==
  { [access_token |-> "d4b39Hjxo2m1aPiiLwuZyh6R", expires_in |-> 899,
     refresh_token |-> "J5P7AX7b6L9LTiWEbShzheNV", token_type |-> "bearer"],
    [access_token |-> "AT2", expires_in |-> 899,
     refresh_token |-> "RT2", token_type |-> "bearer"] }

\* bodies of a successful member query
MemberData ==
  { [currentMember |-> [id |-> "2406643", email |-> "maren.member@gmail.com",
                        fullName |-> "Maren"]] }

\* bodies of a successful refresh_token exchange
RefreshedPairs ==
  { [access_token |-> "wMGRkW7ahw1vFNctr1uCzLQd", expires_in |-> 899,
     refresh_token |-> "AgKtiGrPiBAKtsPGx4kKduuk", token_type |-> "bearer"] }

\* what axios rejects with: a non-2xx answer carries the provider's response
\* (the body under error.response.data), a transport failure carries none.
AxiosErrors ==
  { [name |-> "AxiosError", code |-> "ERR_BAD_REQUEST",
     message |-> "Request failed with status code 401",
     response |-> [status |-> 401, data |-> [error |-> "invalid_grant"]]],
    [name |-> "AxiosError", code |-> "ECONNREFUSED",
     message |-> "connect ECONNREFUSED",
     response |-> Undefined] }

\* what axios resolves with
Resolved(data) == [status |-> 200, data |-> data]

\* ------------------------------------------------------------------------
\* State
\* ------------------------------------------------------------------------

Requests == 1 .. MaxRequests

VARIABLES
  state,                 \* the process-wide expected token
  redirects,             \* the answers of the initiator route, in order
  lobby,                 \* the answers of the lobby route, in order
  pc,                    \* where each callback request stands
  query,                 \* req.query of each callback request
  checked,               \* what each callback request read at the state check
  calls,                 \* the outbound calls each callback request has made
  accessTokenResponse,   \* locals of each callback request
  memberDataResponse,
  refreshTokenResponse,
  caught,                \* the error a callback request caught
  response,              \* what each callback request sent
  genLength,             \* generateRandomString on its own: the argument
  genText                \*   and the string returned

vars ==
  << state, redirects, lobby, pc, query, checked, calls, accessTokenResponse,
     memberDataResponse, refreshTokenResponse, caught, response,
     genLength, genText >>

genVars == << genLength, genText >>

serverVars ==
  << state, redirects, lobby, pc, query, checked, calls, accessTokenResponse,
     memberDataResponse, refreshTokenResponse, caught, response >>

InitServer ==
  /\ state = Str(<< >>)
  /\ redirects = << >>
  /\ lobby = << >>
  /\ pc = [r \in Requests |-> "AwaitingCallback"]
  /\ query = [r \in Requests |-> Undefined]
  /\ checked = [r \in Requests |-> Undefined]
  /\ calls = [r \in Requests |-> << >>]
  /\ accessTokenResponse = [r \in Requests |-> Undefined]
  /\ memberDataResponse = [r \in Requests |-> Undefined]
  /\ refreshTokenResponse = [r \in Requests |-> Undefined]
  /\ caught = [r \in Requests |-> Undefined]
  /\ response = [r \in Requests |-> Undefined]

Init ==
  /\ InitServer
  /\ genLength = 0
  /\ genText = Undefined

\* ------------------------------------------------------------------------
\* Responses and requests the handlers build
\* ------------------------------------------------------------------------

\* res.send(body): an undefined body is sent as an empty one
resSend(body) == [status |-> 200, body |-> body]

\* res.redirect(url)
resRedirect(url) == [status |-> 302, location |-> url]

LobbyPage ==
  Str(<< "<h1>Memberful OAuth SSA Example - NodeJS + Express (No auth library)</h1>",
         "<a href=", beginOAuthFlowURL, ">Begin OAuth Flow</a>" >>)

\* the URL the initiator redirects to, for the stored token st
AuthorizationURL(st) ==
  [base |-> memberfulURL, path |-> "/oauth/",
   query |-> << << "response_type", "code" >>,
                << "client_id", clientId >>,
                << "state", st.chars >> >>]

\* the value of the query parameter key of a URL so built
QueryParam(url, key) ==
  LET i == CHOOSE j \in 1 .. Len(url.query) : url.query[j][1] = key
  IN  url.query[i][2]

MismatchNotice == Str(<< "State doesn't match" >>)

\* the state check comparing lengths only
StateMismatchLengthOnly(stored, returnedState) ==
  ~ (/\ stored.type = returnedState.type
     /\ stored.type = "string" => Len(stored.chars) = Len(returnedState.chars))

\* the state check left out
StateMismatchNever(stored, returnedState) == FALSE

\* String(v) for the values a query parameter takes: a list is its items
\* joined by commas, which for one item is that item
ToStringChars(v) ==
  IF v.type = "string" THEN v.chars
  ELSE IF v.type = "array" /\ Len(v.items) = 1 THEN v.items[1].chars
  ELSE << "undefined" >>

\* the state check written with !=, which coerces a list to a string
StateMismatchLoose(stored, returnedState) ==
  ~ ( /\ returnedState.type # "undefined"
      /\ ToStringChars(stored) = ToStringChars(returnedState) )

\* the test of the state check: the branch that rejects
StateMismatch(stored, returnedState) == ~ StrictEquals(stored, returnedState)

ExchangeRequest(code) ==
  [method |-> "POST", base |-> memberfulURL, path |-> "/oauth/token",
   headers |-> Undefined,
   data |-> [grant_type |-> "authorization_code", code |-> code,
             client_id |-> clientId, client_secret |-> clientSecret]]

ProfileRequest(access_token) ==
  [method |-> "GET", base |-> memberfulURL, path |-> "/api/graphql/member",
   headers |-> [Authorization |-> << "Bearer ", access_token >>],
   data |-> Undefined]

RefreshRequest(refresh_token) ==
  [method |-> "POST", base |-> memberfulURL, path |-> "/oauth/token",
   headers |-> Undefined,
   data |-> [grant_type |-> "refresh_token", refresh_token |-> refresh_token,
             client_id |-> clientId, client_secret |-> clientSecret]]

\* JSON.stringify(value, null, 2)
JSONStringify(value) == [json |-> value, indent |-> 2]

SuccessPage(accessData, memberData, refreshData) ==
  [type |-> "html",
   sections |->
     << << "Results from our access token request:", JSONStringify(accessData) >>,
        << "Results from our member data request:", JSONStringify(memberData) >>,
        << "Results from our refresh token request:", JSONStringify(refreshData) >> >>]

\* ------------------------------------------------------------------------
\* What clients send
\* ------------------------------------------------------------------------

\* the tokens the initiator can generate
Tokens == { generateRandomString(StateLength, rnd) : rnd \in RandomStreams }

\* values of the state query parameter a client sends while the stored
\* token is stored: absent, empty, any token, the stored token with its last
\* character dropped, a one-element list holding the stored token
QueryStates(stored) ==
  { Undefined, Str(<< >>) }
    \cup { Str(t) : t \in Tokens }
    \cup { Str(SubSeq(stored.chars, 1, Len(stored.chars) - 1)),
           Arr(<< stored >>) }

\* values of the code query parameter
QueryCodes == { Str(<< "code-1" >>) }

\* the requests handled so far
Handled ==
  Len(lobby) + Len(redirects)
    + Cardinality({ r \in Requests : pc[r] # "AwaitingCallback" })

\* ------------------------------------------------------------------------
\* The lobby route
\* ------------------------------------------------------------------------

\* a lobby route that also forgets the flow in progress
LobbyResetsState ==
  /\ Handled < MaxRequests
  /\ lobby' = Append(lobby, resSend(LobbyPage))
  /\ state' = Str(<< >>)
  /\ UNCHANGED << redirects, pc, query, checked, calls,
                  accessTokenResponse, memberDataResponse,
                  refreshTokenResponse, caught, response, genVars >>

Lobby ==
  /\ Handled < MaxRequests
  /\ lobby' = Append(lobby, resSend(LobbyPage))
  /\ UNCHANGED << state, redirects, pc, query, checked, calls,
                  accessTokenResponse, memberDataResponse,
                  refreshTokenResponse, caught, response, genVars >>

\* ------------------------------------------------------------------------
\* The initiator route
\* ------------------------------------------------------------------------

\* the initiator building its redirect before it stores the new token
BeginOAuthFlowStale(rnd) ==
  /\ Handled < MaxRequests
  /\ state' = Str(generateRandomString(StateLength, rnd))
  /\ redirects' = Append(redirects, resRedirect(AuthorizationURL(state)))
  /\ UNCHANGED << lobby, pc, query, checked, calls, accessTokenResponse,
                  memberDataResponse, refreshTokenResponse, caught, response,
                  genVars >>

BeginOAuthFlow(rnd) ==
  /\ Handled < MaxRequests
  /\ state' = Str(generateRandomString(StateLength, rnd))
  /\ redirects' = Append(redirects, resRedirect(AuthorizationURL(state')))
  /\ UNCHANGED << lobby, pc, query, checked, calls, accessTokenResponse,
                  memberDataResponse, refreshTokenResponse, caught, response,
                  genVars >>

\* ------------------------------------------------------------------------
\* The callback route
\* ------------------------------------------------------------------------

\* a catch block that tries the failed call once more
CatchRetry(r, error) ==
  /\ caught' = [caught EXCEPT ![r] = error]
  /\ response' = [response EXCEPT ![r] = resSend(Prop(error, "data"))]
  /\ pc' = [pc EXCEPT ![r] = "Failed"]
  /\ calls' = [calls EXCEPT ![r] = Append(@, @[Len(@)])]

\* a catch block that sends what the handler had obtained before the failure
CatchPartial(r, error) ==
  /\ caught' = [caught EXCEPT ![r] = error]
  /\ response' = [response EXCEPT
                    ![r] = resSend(SuccessPage(Prop(accessTokenResponse[r], "data"),
                                               Prop(memberDataResponse[r], "data"),
                                               Undefined))]
  /\ pc' = [pc EXCEPT ![r] = "Failed"]
  /\ UNCHANGED calls

\* the catch block: log the error, send error.data
Catch(r, error) ==
  /\ caught' = [caught EXCEPT ![r] = error]
  /\ response' = [response EXCEPT ![r] = resSend(Prop(error, "data"))]
  /\ pc' = [pc EXCEPT ![r] = "Failed"]
  /\ UNCHANGED calls

\* the handler without its else: after the notice it goes on to the exchange
CallbackFallsThrough(r, code, returnedState) ==
  /\ Handled < MaxRequests
  /\ pc[r] = "AwaitingCallback"
  /\ \A s \in Requests : s < r => pc[s] # "AwaitingCallback"
  /\ query' = [query EXCEPT ![r] = [code |-> code, state |-> returnedState]]
  /\ checked' = [checked EXCEPT ![r] = [expected |-> state, flows |-> Len(redirects)]]
  /\ response' = IF StateMismatch(state, returnedState)
                 THEN [response EXCEPT ![r] = resSend(MismatchNotice)]
                 ELSE response
  /\ calls' = [calls EXCEPT ![r] = Append(@, ExchangeRequest(code))]
  /\ pc' = [pc EXCEPT ![r] = "ExchangingCode"]
  /\ UNCHANGED << state, redirects, lobby, accessTokenResponse,
                  memberDataResponse, refreshTokenResponse, caught, genVars >>

\* the handler up to its first await: read the query, check the state, and
\* either answer with the notice or start the authorization_code exchange
Callback(r, code, returnedState) ==
  /\ Handled < MaxRequests
  /\ pc[r] = "AwaitingCallback"
  /\ \A s \in Requests : s < r => pc[s] # "AwaitingCallback"
  /\ query' = [query EXCEPT ![r] = [code |-> code, state |-> returnedState]]
  /\ checked' = [checked EXCEPT ![r] = [expected |-> state, flows |-> Len(redirects)]]
  /\ IF StateMismatch(state, returnedState)
     THEN /\ response' = [response EXCEPT ![r] = resSend(MismatchNotice)]
          /\ pc' = [pc EXCEPT ![r] = "Rejected"]
          /\ UNCHANGED calls
     ELSE /\ calls' = [calls EXCEPT ![r] = Append(@, ExchangeRequest(code))]
          /\ pc' = [pc EXCEPT ![r] = "ExchangingCode"]
          /\ UNCHANGED response
  /\ UNCHANGED << state, redirects, lobby, accessTokenResponse,
                  memberDataResponse, refreshTokenResponse, caught, genVars >>

\* the authorization_code exchange resolves: keep the answer, start the
\* member query with the access token
ExchangeResolves(r, data) ==
  /\ pc[r] = "ExchangingCode"
  /\ accessTokenResponse' = [accessTokenResponse EXCEPT ![r] = Resolved(data)]
  /\ calls' = [calls EXCEPT ![r] = Append(@, ProfileRequest(data.access_token))]
  /\ pc' = [pc EXCEPT ![r] = "FetchingProfile"]
  /\ UNCHANGED << state, redirects, lobby, query, checked, memberDataResponse,
                  refreshTokenResponse, caught, response, genVars >>

ExchangeRejects(r, error) ==
  /\ pc[r] = "ExchangingCode"
  /\ Catch(r, error)
  /\ UNCHANGED << state, redirects, lobby, query, checked, accessTokenResponse,
                  memberDataResponse, refreshTokenResponse, genVars >>

\* the refresh_token exchange started with the access token
ProfileResolvesWrongToken(r, data) ==
  /\ pc[r] = "FetchingProfile"
  /\ memberDataResponse' = [memberDataResponse EXCEPT ![r] = Resolved(data)]
  /\ calls' = [calls EXCEPT
                 ![r] = Append(@, RefreshRequest(accessTokenResponse[r].data.access_token))]
  /\ pc' = [pc EXCEPT ![r] = "RefreshingToken"]
  /\ UNCHANGED << state, redirects, lobby, query, checked, accessTokenResponse,
                  refreshTokenResponse, caught, response, genVars >>

\* the member query resolves: keep the answer, start the refresh_token
\* exchange with the refresh token of the first exchange
ProfileResolves(r, data) ==
  /\ pc[r] = "FetchingProfile"
  /\ memberDataResponse' = [memberDataResponse EXCEPT ![r] = Resolved(data)]
  /\ calls' = [calls EXCEPT
                 ![r] = Append(@, RefreshRequest(accessTokenResponse[r].data.refresh_token))]
  /\ pc' = [pc EXCEPT ![r] = "RefreshingToken"]
  /\ UNCHANGED << state, redirects, lobby, query, checked, accessTokenResponse,
                  refreshTokenResponse, caught, response, genVars >>

ProfileRejects(r, error) ==
  /\ pc[r] = "FetchingProfile"
  /\ Catch(r, error)
  /\ UNCHANGED << state, redirects, lobby, query, checked, accessTokenResponse,
                  memberDataResponse, refreshTokenResponse, genVars >>

\* the refresh_token exchange resolves: send the summary of the three answers
RefreshResolves(r, data) ==
  /\ pc[r] = "RefreshingToken"
  /\ refreshTokenResponse' = [refreshTokenResponse EXCEPT ![r] = Resolved(data)]
  /\ response' = [response EXCEPT
                    ![r] = resSend(SuccessPage(accessTokenResponse[r].data,
                                               memberDataResponse[r].data,
                                               data))]
  /\ pc' = [pc EXCEPT ![r] = "Done"]
  /\ UNCHANGED << state, redirects, lobby, query, checked, calls,
                  accessTokenResponse, memberDataResponse, caught, genVars >>

RefreshRejects(r, error) ==
  /\ pc[r] = "RefreshingToken"
  /\ Catch(r, error)
  /\ UNCHANGED << state, redirects, lobby, query, checked, accessTokenResponse,
                  memberDataResponse, refreshTokenResponse, genVars >>

\* ------------------------------------------------------------------------
\* The server
\* ------------------------------------------------------------------------

Next ==
  \/ Lobby
  \/ \E rnd \in RandomStreams : BeginOAuthFlow(rnd)
  \/ \E r \in Requests, code \in QueryCodes, returnedState \in QueryStates(state) :
       Callback(r, code, returnedState)
  \/ \E r \in Requests, data \in TokenPairs : ExchangeResolves(r, data)
  \/ \E r \in Requests, error \in AxiosErrors : ExchangeRejects(r, error)
  \/ \E r \in Requests, data \in MemberData : ProfileResolves(r, data)
  \/ \E r \in Requests, error \in AxiosErrors : ProfileRejects(r, error)
  \/ \E r \in Requests, data \in RefreshedPairs : RefreshResolves(r, data)
  \/ \E r \in Requests, error \in AxiosErrors : RefreshRejects(r, error)

Spec == Init /\ [][Next]_vars

\* the call callback request r awaits returns or fails
CallReturns(r) ==
  \/ \E data \in TokenPairs : ExchangeResolves(r, data)
  \/ \E error \in AxiosErrors : ExchangeRejects(r, error)
  \/ \E data \in MemberData : ProfileResolves(r, data)
  \/ \E error \in AxiosErrors : ProfileRejects(r, error)
  \/ \E data \in RefreshedPairs : RefreshResolves(r, data)
  \/ \E error \in AxiosErrors : RefreshRejects(r, error)

\* every outbound call that was started eventually returns or fails, and
\* the event loop then resumes the handler that awaits it
Fairness == \A r \in Requests : WF_vars(CallReturns(r))

\* the server against a provider that answers each exchange with the same
\* token pair: what a successful answer holds does not change where the
\* handler goes next, only that the call resolved or was rejected
NextLive ==
  \/ Lobby
  \/ \E rnd \in RandomStreams : BeginOAuthFlow(rnd)
  \/ \E r \in Requests, code \in QueryCodes, returnedState \in QueryStates(state) :
       Callback(r, code, returnedState)
  \/ \E r \in Requests, data \in { p \in TokenPairs : p.access_token = "AT2" } :
       ExchangeResolves(r, data)
  \/ \E r \in Requests, error \in AxiosErrors : ExchangeRejects(r, error)
  \/ \E r \in Requests, data \in MemberData : ProfileResolves(r, data)
  \/ \E r \in Requests, error \in AxiosErrors : ProfileRejects(r, error)
  \/ \E r \in Requests, data \in RefreshedPairs : RefreshResolves(r, data)
  \/ \E r \in Requests, error \in AxiosErrors : RefreshRejects(r, error)

SpecLive == Init /\ [][NextLive]_vars /\ Fairness

\* ------------------------------------------------------------------------
\* generateRandomString on its own
\* ------------------------------------------------------------------------

InitGen ==
  /\ InitServer
  /\ genLength \in 0 .. MaxLen
  /\ genText = Undefined

\* every outcome of the random source over the calls of one run of the loop
RandomOutcomes(length) == [0 .. (length - 1) -> 0 .. (RandomGrain - 1)]

Generate ==
  /\ genText = Undefined
  /\ \E rnd \in RandomOutcomes(genLength) :
       genText' = Str(generateRandomString(genLength, rnd))
  /\ UNCHANGED << genLength, serverVars >>

NextGen == Generate

SpecGen == InitGen /\ [][NextGen]_vars

\* ------------------------------------------------------------------------
\* Properties
\* ------------------------------------------------------------------------

\* the state parameter of the i-th redirect the initiator sent
RedirectState(i) == QueryParam(redirects[i].location, "state")

\* the callback requests that went past the state check
Passed(r) == pc[r] \notin { "AwaitingCallback", "Rejected" }

\* the number of calls in cs that request path with grant type grant
\* (Undefined: a call without a body, the member query)
CallCount(cs, path, grant) ==
  Cardinality({ i \in 1 .. Len(cs) :
                  /\ cs[i].path = path
                  /\ Prop(cs[i].data, "grant_type") = grant })

\* body shows payload: it is the payload, or a page with the payload in it
Renders(body, payload) ==
  \/ body = payload
  \/ /\ Prop(body, "type") = "html"
     /\ \E i \in 1 .. Len(body.sections) : body.sections[i][2].json = payload

\* C1: a callback request whose state parameter is a string different from
\* the token stored when the request is handled is answered with the
\* mismatch notice and makes no outbound call, whatever came before.
C1_MismatchRejectedWithoutCalls ==
  \A r \in Requests :
    ( /\ pc[r] # "AwaitingCallback"
      /\ query[r].state.type = "string"
      /\ query[r].state.chars # checked[r].expected.chars )
    => /\ pc[r] = "Rejected"
       /\ response[r] = [status |-> 200, body |-> Str(<< "State doesn't match" >>)]
       /\ calls[r] = << >>

\* C1 witness: after an initiator request stored a token, a callback request
\* presenting another token was rejected.
C1_Witness ==
  \E r \in Requests :
    /\ pc[r] = "Rejected"
    /\ checked[r].flows >= 1
    /\ Len(checked[r].expected.chars) = StateLength
    /\ query[r].state.type = "string"
    /\ Len(query[r].state.chars) = StateLength
    /\ query[r].state.chars # checked[r].expected.chars
    /\ calls[r] = << >>

\* C2: a callback request that went past the state check makes its outbound
\* calls in the order token exchange, member query, refresh; when all three
\* succeeded it has made exactly these three calls, the member query carrying
\* the access token and the refresh the refresh token of the first answer,
\* and it answers only then, with a page showing the three payloads.
C2_ThreeCallsInOrderThenRender ==
  \A r \in Requests :
    /\ pc[r] \in { "ExchangingCode", "FetchingProfile", "RefreshingToken" }
         => response[r] = Undefined
    /\ pc[r] = "ExchangingCode" => Len(calls[r]) = 1
    /\ pc[r] = "FetchingProfile" => Len(calls[r]) = 2
    /\ pc[r] \in { "RefreshingToken", "Done" } => Len(calls[r]) = 3
    /\ Len(calls[r]) >= 1 =>
         /\ calls[r][1].method = "POST"
         /\ calls[r][1].base = memberfulURL
         /\ calls[r][1].path = "/oauth/token"
         /\ calls[r][1].data =
              [grant_type |-> "authorization_code", code |-> query[r].code,
               client_id |-> clientId, client_secret |-> clientSecret]
    /\ Len(calls[r]) >= 2 =>
         /\ calls[r][2].method = "GET"
         /\ calls[r][2].base = memberfulURL
         /\ calls[r][2].path = "/api/graphql/member"
         /\ calls[r][2].headers.Authorization =
              << "Bearer ", accessTokenResponse[r].data.access_token >>
    /\ Len(calls[r]) >= 3 =>
         /\ calls[r][3].method = "POST"
         /\ calls[r][3].base = memberfulURL
         /\ calls[r][3].path = "/oauth/token"
         /\ calls[r][3].data =
              [grant_type |-> "refresh_token",
               refresh_token |-> accessTokenResponse[r].data.refresh_token,
               client_id |-> clientId, client_secret |-> clientSecret]
    /\ pc[r] = "Done" =>
         /\ response[r].status = 200
         /\ response[r].body.type = "html"
         /\ Len(response[r].body.sections) = 3
         /\ response[r].body.sections[1][2].json = accessTokenResponse[r].data
         /\ response[r].body.sections[2][2].json = memberDataResponse[r].data
         /\ response[r].body.sections[3][2].json = refreshTokenResponse[r].data
         /\ accessTokenResponse[r].data \in TokenPairs
         /\ memberDataResponse[r].data \in MemberData
         /\ refreshTokenResponse[r].data \in RefreshedPairs

\* C2 witness: a callback request presenting the most recently generated
\* token has finished after three successful calls, the provider having
\* answered the exchange with the second token pair.
C2_Witness ==
  \E r \in Requests :
    /\ pc[r] = "Done"
    /\ checked[r].flows = Len(redirects)
    /\ Len(redirects) >= 1
    /\ query[r].state = state
    /\ accessTokenResponse[r].data.access_token = "AT2"
    /\ Len(calls[r]) = 3
    /\ response[r] # Undefined

\* C3: a callback request one of whose outbound calls failed has made no
\* call after the failed one (one call when the exchange failed, two when
\* the member query failed, three when the refresh failed), and no callback
\* request makes any of the three calls more than once.
C3_NoRetryNoLaterCall ==
  \A r \in Requests :
    /\ CallCount(calls[r], "/oauth/token", "authorization_code") <= 1
    /\ CallCount(calls[r], "/api/graphql/member", Undefined) <= 1
    /\ CallCount(calls[r], "/oauth/token", "refresh_token") <= 1
    /\ Len(calls[r]) <= 3
    /\ pc[r] = "Failed" =>
         /\ caught[r] \in AxiosErrors
         /\ accessTokenResponse[r] = Undefined => Len(calls[r]) = 1
         /\ ( accessTokenResponse[r] # Undefined /\ memberDataResponse[r] = Undefined )
              => Len(calls[r]) = 2
         /\ memberDataResponse[r] # Undefined =>
              Len(calls[r]) = 3 /\ refreshTokenResponse[r] = Undefined

\* C3 witness: the provider answered the token exchange with 401; the
\* callback request failed having made that one call only.
C3_Witness ==
  \E r \in Requests :
    /\ pc[r] = "Failed"
    /\ accessTokenResponse[r] = Undefined
    /\ caught[r].response # Undefined
    /\ caught[r].response.status = 401
    /\ Len(calls[r]) = 1

\* the token that was stored when callback request r ran its state check,
\* told from the initiator's answers: the state parameter of the last
\* redirect sent before the check, the initial empty string when there was none
ExpectedAtCheck(r) ==
  IF checked[r].flows = 0 THEN << >> ELSE RedirectState(checked[r].flows)

\* C4 as stated: a callback request that was handled after some initiator
\* request sends the success page only while the state it presented is the
\* token of the most recent initiator request handled so far.
C4_OnlyMostRecentFlowCompletes ==
  [][ \A r \in Requests :
        ( /\ pc[r] # "Done"
          /\ pc'[r] = "Done"
          /\ checked[r].flows >= 1 )
        => query[r].state = Str(RedirectState(Len(redirects))) ]_vars

\* C4 amended: a callback request that sent the success page presented the
\* token that was stored when its state check ran, that is the token of the
\* most recent initiator request handled before the check, or the initial
\* empty string when there was none; initiator requests handled later, while
\* the callback request is suspended, do not stop it.
C4_CompletesAgainstTokenAtCheck ==
  \A r \in Requests :
    pc[r] = "Done" =>
      /\ query[r].state.type = "string"
      /\ query[r].state.chars = ExpectedAtCheck(r)
      /\ checked[r].expected = Str(ExpectedAtCheck(r))

\* C4 witness: a callback request completed with a token that a later
\* initiator request, handled while it was suspended, had overwritten.
C4_Witness ==
  \E r \in Requests :
    /\ pc[r] = "Done"
    /\ checked[r].flows >= 1
    /\ Len(redirects) > checked[r].flows
    /\ query[r].state # state
    /\ response[r].body.type = "html"

\* C5 as stated: of the callback requests presenting the token one initiator
\* request generated, at most one goes past the state check.
C5_TokenValidatesOneFlow ==
  \A r1, r2 \in Requests :
    ( /\ r1 # r2
      /\ Passed(r1)
      /\ Passed(r2)
      /\ checked[r1].flows >= 1
      /\ checked[r1].flows = checked[r2].flows )
    => query[r1].state # query[r2].state

\* C6 as stated: a callback request goes past the state check only if an
\* initiator request was handled before it and the state it presented is a
\* token an initiator request generated.
C6_PassedOnlyIfInitiated ==
  \A r \in Requests :
    Passed(r) =>
      /\ checked[r].flows >= 1
      /\ query[r].state.type = "string"
      /\ \E i \in 1 .. checked[r].flows : query[r].state.chars = RedirectState(i)

\* the characters of the alphabet
Alphabet == { possible[i] : i \in 1 .. Len(possible) }

\* C7: every answer of the initiator is a redirect to {provider}/oauth/ with
\* response_type=code, the configured client_id and a state parameter of 16
\* characters of the alphabet; the stored token is the state parameter of
\* the last redirect (the empty string before the first); the initiator can
\* always be handled.
C7_InitiatorStoresAndRedirects ==
  /\ \A i \in 1 .. Len(redirects) :
       /\ redirects[i].status = 302
       /\ redirects[i].location.base = memberfulURL
       /\ redirects[i].location.path = "/oauth/"
       /\ Len(redirects[i].location.query) = 3
       /\ QueryParam(redirects[i].location, "response_type") = "code"
       /\ QueryParam(redirects[i].location, "client_id") = clientId
       /\ Len(RedirectState(i)) = 16
       /\ \A j \in 1 .. 16 : RedirectState(i)[j] \in Alphabet
  /\ state.type = "string"
  /\ state.chars = IF redirects = << >> THEN << >> ELSE RedirectState(Len(redirects))
  /\ Handled < MaxRequests => ENABLED (\E rnd \in RandomStreams : BeginOAuthFlow(rnd))

\* C7 witness: two initiator requests generated different tokens, and the
\* stored token is the one the second redirect carries.
C7_Witness ==
  /\ Len(redirects) = 2
  /\ RedirectState(1) # RedirectState(2)
  /\ state = Str(RedirectState(2))

\* C8: a callback request that failed after the token exchange succeeded
\* sends none of the payloads it had obtained, and a page of payloads is
\* sent only by a request all three of whose calls succeeded.
C8_NoPartialSuccess ==
  \A r \in Requests :
    /\ ( pc[r] = "Failed" /\ accessTokenResponse[r] # Undefined ) =>
         /\ ~ Renders(response[r].body, accessTokenResponse[r].data)
         /\ memberDataResponse[r] # Undefined =>
              ~ Renders(response[r].body, memberDataResponse[r].data)
    /\ ( response[r] # Undefined /\ Prop(response[r].body, "type") = "html" ) =>
         /\ pc[r] = "Done"
         /\ accessTokenResponse[r] # Undefined
         /\ memberDataResponse[r] # Undefined
         /\ refreshTokenResponse[r] # Undefined

\* C8 witness: the exchange and the member query succeeded, the refresh
\* failed, and the request has answered.
C8_Witness ==
  \E r \in Requests :
    /\ pc[r] = "Failed"
    /\ accessTokenResponse[r] # Undefined
    /\ memberDataResponse[r] # Undefined
    /\ response[r] # Undefined

\* C9 as stated: when a call failed with an answer of the provider, the
\* callback request sends the body of that answer.
C9_ErrorPayloadSurfaced ==
  \A r \in Requests :
    ( pc[r] = "Failed" /\ caught[r].response # Undefined )
    => response[r].body = caught[r].response.data

\* C10: generateRandomString(N) returns a string of exactly N characters of
\* the 62-character alphabet, for every outcome of the random source; the
\* empty string for N = 0.
C10_LengthAndAlphabet ==
  /\ Cardinality(Alphabet) = 62
  /\ genText # Undefined =>
       /\ genText.type = "string"
       /\ Len(genText.chars) = genLength
       /\ \A i \in 1 .. Len(genText.chars) : genText.chars[i] \in Alphabet
       /\ genLength = 0 => genText.chars = << >>

\* C10 witness: a string of two characters was asked for, and the last
\* character of the alphabet was drawn first.
C10_Witness ==
  /\ genLength = 2
  /\ genText # Undefined
  /\ genText.chars = << "9", "A" >>

\* C11: every answer of the lobby route is the same page, which links to the
\* initiator route, and a lobby request changes nothing else: the stored
\* token, the initiator's answers and every callback request (its position,
\* its outbound calls, its response) are as before.
C11_LobbyIdempotentNoSideEffect ==
  [][ lobby' # lobby =>
        /\ Len(lobby') = Len(lobby) + 1
        /\ SubSeq(lobby', 1, Len(lobby)) = lobby
        /\ lobby'[Len(lobby')].status = 200
        /\ lobby'[Len(lobby')].body.type = "string"
        /\ \E i \in 1 .. Len(lobby'[Len(lobby')].body.chars) :
             lobby'[Len(lobby')].body.chars[i] = beginOAuthFlowURL
        /\ \A i \in 1 .. Len(lobby) : lobby[i] = lobby'[Len(lobby')]
        /\ state' = state
        /\ redirects' = redirects
        /\ pc' = pc
        /\ calls' = calls
        /\ response' = response
        /\ query' = query
        /\ checked' = checked ]_vars

\* C11 witness: the lobby was requested twice around a flow in progress,
\* whose token is still the stored one.
C11_Witness ==
  /\ Len(lobby) = 2
  /\ lobby[1] = lobby[2]
  /\ Len(redirects) = 1
  /\ state = Str(RedirectState(1))

\* C13: a callback request goes past the state check if and only if its
\* state parameter is a string with the very characters of the token stored
\* when the check ran; with the parameter absent, or a list (even one
\* holding the stored token), it is rejected without a call.
C13_ExactEqualityNoCoercion ==
  \A r \in Requests :
    pc[r] # "AwaitingCallback" =>
      /\ Passed(r) <=>
           ( /\ query[r].state.type = "string"
             /\ Len(query[r].state.chars) = Len(checked[r].expected.chars)
             /\ \A i \in 1 .. Len(query[r].state.chars) :
                  query[r].state.chars[i] = checked[r].expected.chars[i] )
      /\ query[r].state.type \in { "undefined", "array" } =>
           pc[r] = "Rejected" /\ calls[r] = << >>
      /\ checked[r].expected = Str(ExpectedAtCheck(r))

\* C13 witness: with a generated token stored, a callback request presenting
\* a one-element list holding that token was rejected, and so was one
\* without a state parameter.
C13_Witness ==
  \E r1, r2 \in Requests :
    /\ pc[r1] = "Rejected"
    /\ checked[r1].flows >= 1
    /\ query[r1].state = Arr(<< checked[r1].expected >>)
    /\ Len(checked[r1].expected.chars) = 16
    /\ pc[r2] = "Rejected"
    /\ checked[r2].flows >= 1
    /\ query[r2].state = Undefined

\* the edges of a callback request: from its arrival, where the state check
\* runs, to Rejected or to the exchange; from each network step to the next
\* one or to Failed
CallbackEdges ==
  { << "AwaitingCallback", "Rejected" >>,
    << "AwaitingCallback", "ExchangingCode" >>,
    << "ExchangingCode", "FetchingProfile" >>,
    << "FetchingProfile", "RefreshingToken" >>,
    << "RefreshingToken", "Done" >>,
    << "ExchangingCode", "Failed" >>,
    << "FetchingProfile", "Failed" >>,
    << "RefreshingToken", "Failed" >> }

\* C12: a callback request moves along these edges only; it has sent a
\* response exactly when it is at Rejected, Done or Failed, and a response
\* once sent is never followed by another; and, every call it starts
\* eventually returning or failing, no request stays at a network step for
\* ever, whatever other requests are handled meanwhile: by the edges, a
\* request that went past the state check eventually is at Done or Failed,
\* and stays there.
C12_EdgesOneResponseTermination ==
  /\ [][ \A r \in Requests :
           /\ pc'[r] # pc[r] => << pc[r], pc'[r] >> \in CallbackEdges
           /\ response[r] # Undefined => response'[r] = response[r] ]_vars
  /\ [] ( \A r \in Requests :
            response[r] # Undefined <=> pc[r] \in { "Rejected", "Done", "Failed" } )
  /\ \A r \in Requests :
       []<>( pc[r] \notin { "ExchangingCode", "FetchingProfile", "RefreshingToken" } )

\* C12 witness: of three callback requests, one was rejected, one finished
\* and one failed, each with its response.
C12_Witness ==
  \E r1, r2, r3 \in Requests :
    /\ pc[r1] = "Rejected" /\ response[r1] # Undefined
    /\ pc[r2] = "Done" /\ response[r2] # Undefined
    /\ pc[r3] = "Failed" /\ response[r3] # Undefined

====
